---- MODULE Spec2Model ----
(***************************************************************************)
(* Model of the Google Meet transcript -> summary -> Slack pipeline:       *)
(* main.py (orchestrator and exit-code wrapper), config.py,                *)
(* drive_downloader.py, ai_summarizer.py and slack_poster.py.              *)
(* Texts are sequences of one-character strings; Python's None is a        *)
(* distinguished value of each type.                                       *)
(***************************************************************************)
EXTENDS Integers, Sequences, FiniteSets, TLC

\* ------------------------------------------------------------------ bounds
MaxLen == 2        \* longest text a backend returns
MaxParas == 2      \* most paragraphs of a word-processor document
MaxFiles == 1      \* longest candidate listing
MaxChunks == 2     \* most next_chunk calls of one download
MaxClock == 1      \* last wall-clock second observed
MaxRuns == 2       \* number of sequential runs of the command

\* ------------------------------------------------------------------ texts
None == <<"None">>
NoneStr == "None"
NoPath == -1

Chars == {"a", " "}
Whitespace == {" ", "\n"}

RECURSIVE TextsOfLen(_)
TextsOfLen(n) ==
  IF n = 0 THEN {<<>>}
  ELSE {<<c>> \o t : c \in Chars, t \in TextsOfLen(n - 1)}

Texts == UNION {TextsOfLen(n) : n \in 0..MaxLen}

RECURSIVE lstrip(_)
lstrip(s) ==
  IF s = <<>> THEN <<>>
  ELSE IF Head(s) \in Whitespace THEN lstrip(Tail(s)) ELSE s

RECURSIVE rstrip(_)
rstrip(s) ==
  IF s = <<>> THEN <<>>
  ELSE IF s[Len(s)] \in Whitespace THEN rstrip(SubSeq(s, 1, Len(s) - 1)) ELSE s

strip(s) == rstrip(lstrip(s))

\* Python truthiness of an optional text: None and "" are falsy.
Truthy(s) == s # None /\ s # <<>>

RECURSIVE Count(_, _)
Count(x, s) ==
  IF s = <<>> THEN 0
  ELSE (IF Head(s) = x THEN 1 ELSE 0) + Count(x, Tail(s))

\* ----------------------------------------------------------------- config
Unset == "<unset>"
EnvValues == {Unset, "", "x"}

required_vars ==
  << "google_credentials_path", "google_drive_folder_id", "slack_bot_token",
     "slack_channel_id", "google_ai_api_key" >>

RequiredSet == {required_vars[i] : i \in 1..Len(required_vars)}
OptionalSet == {"ai_model_name", "target_directory"}
Keys == RequiredSet \cup OptionalSet

DefaultOf(k) == IF k = "ai_model_name" THEN "gemini-pro" ELSE "./downloads"

\* os.getenv(name) gives None when unset; os.getenv(name, default) gives the
\* default only when unset (an empty value is returned as it is).
getenv(env, k) ==
  IF k \in OptionalSet /\ env[k] = Unset THEN DefaultOf(k)
  ELSE IF env[k] = Unset THEN NoneStr
  ELSE env[k]

env_vars_of(env) == [k \in Keys |-> getenv(env, k)]

missing_vars_first(ev) ==
  LET all == SelectSeq(required_vars, LAMBDA v : ev[v] \in {NoneStr, ""})
  IN  IF all = <<>> THEN <<>> ELSE <<Head(all)>>

missing_vars(ev) == SelectSeq(required_vars, LAMBDA v : ev[v] \in {NoneStr, ""})

NoEnvVars == [k \in Keys |-> NoneStr]

\* dotenv is the outcome of load_dotenv(): "ok", or "error" when reading the
\* .env file raises (unreadable or undecodable file).
load_environment_variables(env, dotenv) ==
  IF dotenv = "error"
  THEN [raised |-> "OSError", missing |-> <<>>, value |-> NoEnvVars]
  ELSE LET ev == env_vars_of(env) IN
       IF missing_vars(ev) # <<>>
       THEN [raised |-> "ValueError", missing |-> missing_vars(ev), value |-> NoEnvVars]
       ELSE [raised |-> "none", missing |-> <<>>, value |-> ev]

\* ------------------------------------------------------------ chat backend
Stages ==
  << "load_environment_variables", "test_slack_connection",
     "download_latest_transcript_from_drive", "summarize_transcript_with_ai",
     "post_summary_to_slack" >>

StageSet == {Stages[i] : i \in 1..Len(Stages)}

\* Outcomes of one Slack Web API call: an ok response, a response whose "ok"
\* is false, a SlackApiError, any other exception before the request was
\* accepted, and a transport error after the backend accepted the request.
SlackResponses == {"ok", "not_ok", "SlackApiError", "Exception", "ExceptionAfterDelivery"}
AuthResponses == {"ok", "not_ok", "SlackApiError", "Exception"}

test_slack_connection_uncaught(resp) ==
  [ ret |-> (resp = "ok"),
    raised |-> IF resp = "Exception" THEN "Exception" ELSE "none",
    events |-> <<"test_slack_connection", "auth_test">> ]

test_slack_connection(resp) ==
  [ ret |-> (resp = "ok"),
    raised |-> "none",
    events |-> <<"test_slack_connection", "auth_test">> ]

createSlackMessageNoLink(summary_text, google_doc_url, now) ==
  [ header |-> "report", summary |-> summary_text, link |-> NoneStr, ts |-> now ]

_create_slack_message(summary_text, google_doc_url, now) ==
  [ header |-> "report", summary |-> summary_text, link |-> google_doc_url, ts |-> now ]

\* The responses after which the channel holds the message.
Delivered(resp) == resp \in {"ok", "ExceptionAfterDelivery"}

post_summary_to_slack_failover(resp, summary_text, google_doc_url, now) ==
  [ ret |-> (resp = "ok"),
    raised |-> "none",
    events |-> IF resp = "ok"
               THEN <<"post_summary_to_slack", "_create_slack_message", "chat_postMessage">>
               ELSE <<"post_summary_to_slack", "_create_slack_message", "chat_postMessage",
                      "post_simple_message_to_slack", "chat_postMessage">>,
    sent |-> IF Delivered(resp)
             THEN <<_create_slack_message(summary_text, google_doc_url, now)>>
             ELSE <<>> ]

post_summary_to_slack(resp, summary_text, google_doc_url, now) ==
  [ ret |-> (resp = "ok"),
    raised |-> "none",
    events |-> <<"post_summary_to_slack", "_create_slack_message", "chat_postMessage">>,
    sent |-> IF Delivered(resp)
             THEN <<_create_slack_message(summary_text, google_doc_url, now)>>
             ELSE <<>> ]

\* ------------------------------------------------------ generation backend
\* generate_content either raises, or returns a response whose .text is a
\* text (possibly empty); reading .text of a blocked response raises too.
GenResponses ==
  {[kind |-> "error", text |-> <<>>]} \cup {[kind |-> "text", text |-> t] : t \in Texts}

summarize_without_strip_check(exists, file_text, resp) ==
  IF ~exists
  THEN [ret |-> None, raised |-> "none", cause |-> "fileNotFound",
        events |-> <<"summarize_transcript_with_ai">>]
  ELSE IF file_text = <<>>
  THEN [ret |-> None, raised |-> "none", cause |-> "emptyInput",
        events |-> <<"summarize_transcript_with_ai">>]
  ELSE IF resp.kind = "error"
  THEN [ret |-> None, raised |-> "none", cause |-> "backendFailure",
        events |-> <<"summarize_transcript_with_ai", "genai.configure", "generate_content">>]
  ELSE IF resp.text # <<>>
  THEN [ret |-> strip(resp.text), raised |-> "none", cause |-> "none",
        events |-> <<"summarize_transcript_with_ai", "genai.configure", "generate_content">>]
  ELSE [ret |-> None, raised |-> "none", cause |-> "emptyResponse",
        events |-> <<"summarize_transcript_with_ai", "genai.configure", "generate_content">>]

summarize_transcript_with_ai(exists, file_text, resp) ==
  IF ~exists
  THEN [ret |-> None, raised |-> "none", cause |-> "fileNotFound",
        events |-> <<"summarize_transcript_with_ai">>]
  ELSE IF strip(file_text) = <<>>
  THEN [ret |-> None, raised |-> "none", cause |-> "emptyInput",
        events |-> <<"summarize_transcript_with_ai">>]
  ELSE IF resp.kind = "error"
  THEN [ret |-> None, raised |-> "none", cause |-> "backendFailure",
        events |-> <<"summarize_transcript_with_ai", "genai.configure", "generate_content">>]
  ELSE IF resp.text # <<>>
  THEN [ret |-> strip(resp.text), raised |-> "none", cause |-> "none",
        events |-> <<"summarize_transcript_with_ai", "genai.configure", "generate_content">>]
  ELSE [ret |-> None, raised |-> "none", cause |-> "emptyResponse",
        events |-> <<"summarize_transcript_with_ai", "genai.configure", "generate_content">>]

\* ---------------------------------------------------------- document store
GDOC == "application/vnd.google-apps.document"
DOCX == "application/vnd.openxmlformats-officedocument.wordprocessingml.document"
TXT == "text/plain"
PDF == "application/pdf"
MimeTypes == {GDOC, DOCX, TXT, PDF}

FileIds == {1, 2}
UrlOf == << "https://docs.example/1", "https://docs.example/2" >>

Candidates ==
  {[id |-> i, mimeType |-> m, webViewLink |-> UrlOf[i]] : i \in FileIds, m \in MimeTypes}

NoCandidate == [id |-> 0, mimeType |-> NoneStr, webViewLink |-> NoneStr]

Listings == UNION {[1..n -> Candidates] : n \in 0..MaxFiles}

ListResponses ==
  {[kind |-> "error", files |-> <<>>]} \cup {[kind |-> "files", files |-> l] : l \in Listings}

\* The request _download_file_content builds for a content type; NoneStr for
\* an unsupported type.
request_for(mime_type) ==
  IF mime_type = GDOC THEN "export_media"
  ELSE IF mime_type = DOCX THEN "get_media"
  ELSE IF mime_type = TXT THEN "get_media"
  ELSE NoneStr

ParaTexts == {<<>>, <<"a">>}
ParaLists == UNION {[1..n -> ParaTexts] : n \in 0..MaxParas}

\* What the download buffer holds: a word-processor package with its
\* paragraphs, or bytes that decode to a text; valid is FALSE when the
\* package cannot be opened or the bytes are not UTF-8.
Payloads(mime_type) ==
  IF mime_type = DOCX
  THEN {[valid |-> v, paras |-> ps, text |-> <<>>] : v \in BOOLEAN, ps \in ParaLists}
  ELSE {[valid |-> v, paras |-> <<>>, text |-> t] : v \in BOOLEAN, t \in Texts}

RECURSIVE Join(_)
Join(ps) ==
  IF ps = <<>> THEN <<>>
  ELSE IF Len(ps) = 1 THEN ps[1]
  ELSE ps[1] \o <<"\n">> \o Join(Tail(ps))

extract_content(mime_type, payload) ==
  IF ~payload.valid THEN None
  ELSE IF mime_type = DOCX THEN Join(payload.paras)
  ELSE payload.text

content_acquired_unchecked(content) == TRUE

\* download_latest_transcript_from_drive goes on to write the file only when
\* _download_file_content returned a content.
content_acquired(content) == content # None

\* --------------------------------------------------------- local artifacts
Names == 0..MaxClock

NoFile == [exists |-> FALSE, run |-> 0, source |-> 0, body |-> <<>>, complete |-> FALSE]

Header == <<"#", "\n">>

\* f.read(): an artifact written by a run is the header block, then the
\* body; a file the pipeline did not write (run 0) is whatever text it holds.
FileText(f) ==
  IF f.run = 0 THEN f.body
  ELSE IF f.complete THEN Header \o f.body ELSE Header

\* ------------------------------------------------------------ orchestrator
main_ignores_connectivity(stage_name, ok) ==
  IF stage_name = "test_slack_connection" THEN TRUE ELSE ok

\* main goes on to the next stage only when the stage's result is truthy.
main_proceeds(stage_name, ok) == ok

main_except_reraises(raised) ==
  IF raised = "KeyboardInterrupt" THEN "KeyboardInterrupt" ELSE "Exception"

\* main's "except Exception": every Exception becomes the return value False;
\* KeyboardInterrupt is a BaseException and passes through.
main_except(raised) ==
  IF raised = "KeyboardInterrupt" THEN "KeyboardInterrupt" ELSE "False"

\* run_with_error_handling: the exit code for what main returned or raised.
run_with_error_handling(result) ==
  IF result = "True" THEN 0
  ELSE IF result = "False" THEN 1
  ELSE IF result = "KeyboardInterrupt" THEN 2
  ELSE 3

\* What main handed to run_with_error_handling, read off its final position.
PcOf(result) ==
  IF result = "True" THEN "Done"
  ELSE IF result = "False" THEN "Failed"
  ELSE IF result = "KeyboardInterrupt" THEN "Interrupted"
  ELSE "Crashed"

MainResult(p) ==
  IF p = "Done" THEN "True"
  ELSE IF p = "Failed" THEN "False"
  ELSE IF p = "Interrupted" THEN "KeyboardInterrupt"
  ELSE "Exception"

\* ------------------------------------------------------------------ state
VARIABLES
  env,             \* the process environment (after .env is merged)
  pc,              \* position of the run
  env_vars,        \* main's env_vars dictionary
  config_error,    \* the keys named by the ValueError of config resolution
  stage,           \* per stage: notrun, ok, failed (returned failure), raised
  cause,           \* the first failure logged in the run
  log,             \* stage entries and external calls of the run, in order
  latest_file,     \* files[0] of the listing
  chunks,          \* next_chunk calls made
  content,         \* the extracted text
  file_path,       \* main's file_path
  google_doc_url,  \* main's google_doc_url
  response_text,   \* response.text of the generation call (None before it)
  summary_text,    \* main's summary_text
  posted,          \* messages the channel received in the run
  exitCode,        \* the process exit code
  files,           \* the target directory: file name -> artifact
  dir_exists,      \* whether the target directory exists
  clock,           \* the last wall-clock second read
  run              \* number of the current run

vars ==
  << env, pc, env_vars, config_error, stage, cause, log, latest_file, chunks,
     content, file_path, google_doc_url, response_text, summary_text, posted,
     exitCode,
     files, dir_exists, clock, run >>

runLocal ==
  << env_vars, config_error, stage, cause, log, latest_file, chunks, content,
     file_path, google_doc_url, response_text, summary_text, posted, exitCode >>

Running ==
  {"Start", "ConfigResolved", "ConnectivityVerified", "Downloading",
   "ContentReady", "TranscriptFetched", "SummaryGenerated"}

Returned == {"Done", "Failed", "Interrupted", "Crashed"}

NoExit == -1

Init ==
  /\ env \in [Keys -> EnvValues]
  /\ pc = "Start"
  /\ env_vars = NoEnvVars
  /\ config_error = <<>>
  /\ stage = [s \in StageSet |-> "notrun"]
  /\ cause = "none"
  /\ log = <<>>
  /\ latest_file = NoCandidate
  /\ chunks = 0
  /\ content = None
  /\ file_path = NoPath
  /\ google_doc_url = NoneStr
  /\ response_text = None
  /\ summary_text = None
  /\ posted = <<>>
  /\ exitCode = NoExit
  /\ files = [n \in Names |-> NoFile]
  /\ dir_exists \in BOOLEAN
  /\ clock = 0
  /\ run = 1

FirstCause(c) == IF cause = "none" THEN c ELSE cause

\* main.py 32-35, with main's except for the ValueError of config.py 36-37
LoadEnvironment ==
  /\ pc = "Start"
  /\ \E dotenv \in {"ok", "error"} :
       LET r == load_environment_variables(env, dotenv) IN
       /\ log' = log \o <<"load_environment_variables", "load_dotenv">>
       /\ IF r.raised = "none"
          THEN /\ env_vars' = r.value
               /\ stage' = [stage EXCEPT !["load_environment_variables"] = "ok"]
               /\ pc' = "ConfigResolved"
               /\ UNCHANGED <<config_error, cause>>
          ELSE /\ stage' = [stage EXCEPT !["load_environment_variables"] = "raised"]
               /\ config_error' = r.missing
               /\ cause' = IF r.raised = "ValueError" THEN "missingKeys" ELSE "unexpected"
               /\ pc' = PcOf(main_except(r.raised))
               /\ UNCHANGED env_vars
  /\ UNCHANGED << env, latest_file, chunks, content, file_path, google_doc_url,
                  response_text, summary_text, posted, exitCode, files,
                  dir_exists, clock, run >>

\* main.py 37-42
SlackConnectionTest ==
  /\ pc = "ConfigResolved"
  /\ \E resp \in AuthResponses :
       LET r == test_slack_connection(resp) IN
       /\ log' = log \o r.events
       /\ IF r.raised # "none"
          THEN /\ stage' = [stage EXCEPT !["test_slack_connection"] = "raised"]
               /\ cause' = FirstCause("unexpected")
               /\ pc' = PcOf(main_except(r.raised))
          ELSE /\ stage' = [stage EXCEPT !["test_slack_connection"] =
                              IF r.ret THEN "ok" ELSE "failed"]
               /\ cause' = IF r.ret THEN cause ELSE FirstCause("authFailed")
               /\ pc' = IF main_proceeds("test_slack_connection", r.ret)
                        THEN "ConnectivityVerified" ELSE "Failed"
  /\ UNCHANGED << env, env_vars, config_error, latest_file, chunks, content,
                  file_path, google_doc_url, response_text, summary_text, posted, exitCode,
                  files, dir_exists, clock, run >>

FetchFails(c) ==
  /\ stage' = [stage EXCEPT !["download_latest_transcript_from_drive"] = "failed"]
  /\ cause' = FirstCause(c)
  /\ pc' = IF main_proceeds("download_latest_transcript_from_drive", FALSE)
           THEN "TranscriptFetched" ELSE "Failed"

\* What download_latest_transcript_from_drive does with the value of
\* _download_file_content: give up, or go on to the write.
AfterContent(c, why) ==
  IF content_acquired(c)
  THEN /\ content' = c
       /\ pc' = "ContentReady"
       /\ cause' = IF c = None THEN FirstCause(why) ELSE cause
       /\ UNCHANGED stage
  ELSE /\ content' = c
       /\ FetchFails(why)

\* drive_downloader.py 30-68 and 106-118: credentials, listing, selection of
\* files[0], makedirs, and the request for the content type
DriveList ==
  /\ pc = "ConnectivityVerified"
  /\ log' = log \o <<"download_latest_transcript_from_drive", "files.list">>
  /\ \E lr \in ListResponses, mk \in {"ok", "error"} :
       IF lr.kind = "error"
       THEN /\ FetchFails("listError")
            /\ UNCHANGED <<latest_file, dir_exists, content>>
       ELSE IF lr.files = <<>>
       THEN /\ FetchFails("notFound")
            /\ UNCHANGED <<latest_file, dir_exists, content>>
       ELSE /\ latest_file' = lr.files[1]
            /\ IF mk = "error" /\ ~dir_exists
               THEN /\ FetchFails("mkdirError")
                    /\ UNCHANGED <<dir_exists, content>>
               ELSE /\ dir_exists' = TRUE
                    /\ IF request_for(lr.files[1].mimeType) = NoneStr
                       THEN AfterContent(None, "unsupportedType")
                       ELSE /\ pc' = "Downloading"
                            /\ UNCHANGED <<stage, cause, content>>
  /\ chunks' = 0
  /\ UNCHANGED << env, env_vars, config_error, file_path, google_doc_url,
                  response_text, summary_text, posted, exitCode, files, clock, run >>

\* drive_downloader.py 120-142: one next_chunk call; when it reports done,
\* the extraction of the text
NextChunk ==
  /\ pc = "Downloading"
  /\ log' = log \o <<"next_chunk">>
  /\ chunks' = chunks + 1
  /\ \E r \in {"more", "done", "error"} :
       \/ /\ r = "more"
          /\ chunks + 1 < MaxChunks
          /\ UNCHANGED <<pc, stage, cause, content>>
       \/ /\ r = "error"
          /\ AfterContent(None, "downloadError")
       \/ /\ r = "done"
          /\ \E payload \in Payloads(latest_file.mimeType) :
               LET c == extract_content(latest_file.mimeType, payload) IN
               AfterContent(c, "extractError")
  /\ UNCHANGED << env, env_vars, config_error, latest_file, file_path,
                  google_doc_url, response_text, summary_text, posted, exitCode, files,
                  dir_exists, clock, run >>

\* drive_downloader.py 70-92 and main.py 52-56: the timestamped file name,
\* open(..., 'w') and the writes.  The clock is read at one-second
\* resolution and never runs backwards here.
SaveTranscript ==
  /\ pc = "ContentReady"
  /\ log' = log \o <<"open">>
  /\ \E t \in clock..MaxClock, w \in {"ok", "open_error", "write_error"} :
       /\ clock' = t
       /\ IF w = "open_error"
          THEN /\ FetchFails("openError")
               /\ UNCHANGED <<files, file_path, google_doc_url>>
          ELSE IF w = "write_error" \/ content = None
          THEN \* open() has created or truncated the file; a write raised
               /\ files' = [files EXCEPT ![t] =
                              [exists |-> TRUE, run |-> run, source |-> latest_file.id,
                               body |-> <<>>, complete |-> FALSE]]
               /\ FetchFails("writeError")
               /\ UNCHANGED <<file_path, google_doc_url>>
          ELSE /\ files' = [files EXCEPT ![t] =
                              [exists |-> TRUE, run |-> run, source |-> latest_file.id,
                               body |-> content, complete |-> TRUE]]
               /\ file_path' = t
               /\ google_doc_url' = latest_file.webViewLink
               /\ stage' = [stage EXCEPT !["download_latest_transcript_from_drive"] = "ok"]
               /\ pc' = IF main_proceeds("download_latest_transcript_from_drive", TRUE)
                        THEN "TranscriptFetched" ELSE "Failed"
               /\ UNCHANGED cause
  /\ UNCHANGED << env, env_vars, config_error, latest_file, chunks, content,
                  response_text, summary_text, posted, exitCode, dir_exists, run >>

\* main.py 58-70 with ai_summarizer.py 24-59
Summarize ==
  /\ pc = "TranscriptFetched"
  /\ \E resp \in GenResponses :
       LET f == files[file_path]
           r == summarize_transcript_with_ai(f.exists, FileText(f), resp)
       IN
       /\ log' = log \o r.events
       /\ summary_text' = r.ret
       /\ response_text' = IF Count("generate_content", r.events) = 1 /\ resp.kind = "text"
                           THEN resp.text ELSE None
       /\ stage' = [stage EXCEPT !["summarize_transcript_with_ai"] =
                      IF Truthy(r.ret) THEN "ok" ELSE "failed"]
       /\ cause' = IF Truthy(r.ret) THEN cause
                   ELSE IF r.cause = "none" THEN FirstCause("emptySummary")
                   ELSE FirstCause(r.cause)
       /\ pc' = IF main_proceeds("summarize_transcript_with_ai", Truthy(r.ret))
                THEN "SummaryGenerated" ELSE "Failed"
  /\ UNCHANGED << env, env_vars, config_error, latest_file, chunks, content,
                  file_path, google_doc_url, posted, exitCode, files,
                  dir_exists, clock, run >>

\* main.py 73-88 with slack_poster.py 12-53
PostSummary ==
  /\ pc = "SummaryGenerated"
  /\ \E resp \in SlackResponses :
       LET r == post_summary_to_slack(resp, summary_text, google_doc_url, clock) IN
       /\ log' = log \o r.events
       /\ posted' = posted \o r.sent
       /\ stage' = [stage EXCEPT !["post_summary_to_slack"] =
                      IF r.ret THEN "ok" ELSE "failed"]
       /\ cause' = IF r.ret THEN cause ELSE FirstCause("deliveryFailed")
       /\ pc' = IF main_proceeds("post_summary_to_slack", r.ret)
                THEN "Done" ELSE "Failed"
  /\ UNCHANGED << env, env_vars, config_error, latest_file, chunks, content,
                  file_path, google_doc_url, response_text, summary_text, exitCode, files,
                  dir_exists, clock, run >>

\* Ctrl-C while main runs: KeyboardInterrupt is not an Exception, so neither
\* a stage's handlers nor main's catch it (main.py 90, 107).
Interrupt ==
  /\ pc \in Running
  /\ pc' = PcOf(main_except("KeyboardInterrupt"))
  /\ cause' = FirstCause("interrupted")
  /\ UNCHANGED << env, env_vars, config_error, stage, log, latest_file, chunks,
                  content, file_path, google_doc_url, response_text, summary_text, posted,
                  exitCode, files, dir_exists, clock, run >>

\* main.py 94-115
Exit ==
  /\ pc \in Returned
  /\ exitCode' = run_with_error_handling(MainResult(pc))
  /\ pc' = "Exited"
  /\ UNCHANGED << env, env_vars, config_error, stage, cause, log, latest_file,
                  chunks, content, file_path, google_doc_url, response_text, summary_text,
                  posted, files, dir_exists, clock, run >>

\* The command is started again after the previous run has exited; the
\* environment, the target directory and the clock carry over.
NextRun ==
  /\ pc = "Exited"
  /\ run < MaxRuns
  /\ run' = run + 1
  /\ pc' = "Start"
  /\ env_vars' = NoEnvVars
  /\ config_error' = <<>>
  /\ stage' = [s \in StageSet |-> "notrun"]
  /\ cause' = "none"
  /\ log' = <<>>
  /\ latest_file' = NoCandidate
  /\ chunks' = 0
  /\ content' = None
  /\ file_path' = NoPath
  /\ google_doc_url' = NoneStr
  /\ response_text' = None
  /\ summary_text' = None
  /\ posted' = <<>>
  /\ exitCode' = NoExit
  /\ UNCHANGED <<env, files, dir_exists, clock>>

RunStep ==
  \/ LoadEnvironment
  \/ SlackConnectionTest
  \/ DriveList
  \/ NextChunk
  \/ SaveTranscript
  \/ Summarize
  \/ PostSummary
  \/ Interrupt
  \/ Exit

\* One run of the command.
Next == RunStep

Spec == Init /\ [][Next]_vars

\* Sequential runs against the same target directory.
NextRuns == RunStep \/ NextRun

SpecRuns == Init /\ [][NextRuns]_vars

\* ================================================================= claims
StageEntries == SelectSeq(log, LAMBDA e : e \in StageSet)

StageDone(s) == stage[s] # "notrun"
StageFailed(s) == stage[s] \in {"failed", "raised"}

ThisRunFiles == {n \in Names : files[n].exists /\ files[n].run = run}

\* C1: the stages of a run execute only in the order config resolution,
\* connectivity test, fetch, summary, publish; a stage starts only if every
\* earlier stage succeeded; the first stage failure ends the run as Failed
\* (main returns False, exit code 1) with no later stage executed; when the
\* auth-test fails there is no document-store call and no generation call.
C1_StagesInOrderFailFast ==
  /\ Len(StageEntries) <= Len(Stages)
  /\ StageEntries = SubSeq(Stages, 1, Len(StageEntries))
  /\ \A i \in 1..Len(Stages) :
       StageDone(Stages[i]) => \A j \in 1..(i - 1) : stage[Stages[j]] = "ok"
  /\ \A i \in 1..Len(Stages) :
       StageFailed(Stages[i]) =>
         /\ pc \in {"Failed", "Exited"}
         /\ pc = "Exited" => exitCode = 1
         /\ \A j \in (i + 1)..Len(Stages) :
              /\ stage[Stages[j]] = "notrun"
              /\ Count(Stages[j], log) = 0
  /\ stage["test_slack_connection"] = "failed" =>
       /\ Count("files.list", log) = 0
       /\ Count("next_chunk", log) = 0
       /\ Count("generate_content", log) = 0

C1_Witness ==
  /\ stage["test_slack_connection"] = "failed"
  /\ pc = "Exited"
  /\ exitCode = 1

\* C2: when the extracted text of the selected document is empty or
\* whitespace-only, the fetch stage fails: no artifact is persisted, the
\* generation backend is not called and nothing is published.
C2_EmptyContentFailsFetch ==
  (content # None /\ strip(content) = <<>>) =>
    /\ stage["download_latest_transcript_from_drive"] # "ok"
    /\ ThisRunFiles = {}
    /\ Count("generate_content", log) = 0
    /\ posted = <<>>

\* C3: a run that ends in Done made exactly one post, the channel holds
\* exactly one message of the run, and that message carries the generation
\* backend's text, trimmed, and the selected candidate's source URL.
C3_DoneMeansOneMessage ==
  pc = "Done" =>
    /\ Count("chat_postMessage", log) = 1
    /\ Len(posted) = 1
    /\ response_text # None
    /\ posted[1].summary = strip(response_text)
    /\ posted[1].link = latest_file.webViewLink
    /\ latest_file \in Candidates

C3_Witness ==
  /\ pc = "Done"
  /\ response_text # None
  /\ response_text # strip(response_text)
  /\ Len(posted) = 1

\* C4: within one run each external operation (auth-test, listing,
\* generation, post) and each stage is invoked at most once, and after a
\* failed structured post there is no second post and no plain-text
\* fallback post.
C4_NoRetryNoFailover ==
  /\ \A op \in {"auth_test", "files.list", "generate_content", "chat_postMessage"} :
       Count(op, log) <= 1
  /\ \A s \in StageSet : Count(s, log) <= 1
  /\ Count("post_simple_message_to_slack", log) = 0

C4_Witness ==
  /\ stage["post_summary_to_slack"] = "failed"
  /\ pc = "Failed"
  /\ Count("chat_postMessage", log) = 1

FetchCausesBeforeWrite ==
  {"listError", "notFound", "mkdirError", "unsupportedType", "downloadError", "extractError"}

\* C5: the artifact is written only after a content was extracted; when the
\* fetch fails for an empty listing, an unsupported content type or a failed
\* listing or download call, the run creates no file in the target
\* directory and the fetch returns (None, None).
C5_NoFileWhenFetchFails ==
  /\ ThisRunFiles # {} => content # None
  /\ Count("open", log) > 0 => content # None
  /\ (StageFailed("download_latest_transcript_from_drive") /\ cause \in FetchCausesBeforeWrite) =>
       /\ ThisRunFiles = {}
       /\ Count("open", log) = 0
       /\ file_path = NoPath
       /\ google_doc_url = NoneStr

C5_Witness ==
  /\ stage["download_latest_transcript_from_drive"] = "failed"
  /\ cause \in {"unsupportedType", "downloadError", "extractError"}
  /\ dir_exists
  /\ pc = "Failed"

MissingRequired == {k \in RequiredSet : env[k] \in {Unset, ""}}

DotenvFailed ==
  stage["load_environment_variables"] = "raised" /\ cause = "unexpected"

\* C6: whatever subset of the five required settings is unset or empty,
\* configuration resolution fails exactly when that subset is not empty, and
\* its error names exactly the missing keys; otherwise it succeeds, with the
\* model name and the target directory at their defaults when unset.
C6_ConfigListsEveryMissingKey ==
  (StageDone("load_environment_variables") /\ ~DotenvFailed) =>
    /\ MissingRequired # {} =>
         /\ stage["load_environment_variables"] = "raised"
         /\ cause = "missingKeys"
         /\ {config_error[i] : i \in 1..Len(config_error)} = MissingRequired
         /\ Len(config_error) = Cardinality(MissingRequired)
         /\ env_vars = NoEnvVars
    /\ MissingRequired = {} =>
         /\ stage["load_environment_variables"] = "ok"
         /\ config_error = <<>>
         /\ \A k \in RequiredSet : env_vars[k] = env[k]
         /\ \A k \in OptionalSet :
              env_vars[k] = IF env[k] = Unset THEN DefaultOf(k) ELSE env[k]
         /\ env["ai_model_name"] = Unset => env_vars["ai_model_name"] = "gemini-pro"
         /\ env["target_directory"] = Unset => env_vars["target_directory"] = "./downloads"

C6_Witness ==
  /\ Cardinality(MissingRequired) >= 2
  /\ stage["load_environment_variables"] = "raised"
  /\ Len(config_error) = Cardinality(MissingRequired)

PublishEntries == {i \in 1..Len(log) : log[i] = "post_summary_to_slack"}

\* C7 as stated: every invocation of post_summary_to_slack begins with the
\* authentication check, before a message is constructed or posted.
C7_PublishChecksAuthFirst ==
  \A i \in PublishEntries :
    /\ i < Len(log)
    /\ log[i + 1] = "auth_test"

\* C7 as amended: post_summary_to_slack makes no authentication check of its
\* own; it constructs the message and calls post-message directly.  In a
\* run of main the check is the earlier connectivity stage: publish is
\* invoked only after that stage's auth-test succeeded, and when the
\* auth-test fails no message is constructed and post-message is not called.
C7_AuthIsAnEarlierStage ==
  /\ \A i \in PublishEntries :
       /\ i + 2 <= Len(log)
       /\ log[i + 1] = "_create_slack_message"
       /\ log[i + 2] = "chat_postMessage"
       /\ \A j \in i..Len(log) : log[j] # "auth_test"
       /\ \E j \in 1..(i - 1) : log[j] = "auth_test"
       /\ stage["test_slack_connection"] = "ok"
  /\ stage["test_slack_connection"] # "ok" =>
       /\ Count("_create_slack_message", log) = 0
       /\ Count("chat_postMessage", log) = 0

C7_Witness ==
  /\ PublishEntries # {}
  /\ stage["post_summary_to_slack"] = "failed"

\* C8: across sequential runs against the same target directory, a run
\* never writes a file name an earlier run wrote: an artifact of an earlier
\* run is never overwritten or changed.
C8_RunsNeverOverwrite ==
  [][\A n \in Names :
       (files[n].exists /\ files[n].run < run) => files'[n] = files[n]]_vars

\* C9 as stated: no stage lets a fault propagate past its boundary; every
\* failure is a returned value.
C9_NoStageRaises ==
  \A s \in StageSet : stage[s] # "raised"

\* C9 as amended: the connectivity test, fetch, summarize and publish report
\* every failure as a returned value and never raise into the orchestrator;
\* configuration resolution reports its failures by raising (a ValueError
\* naming the missing keys), which main's handler turns into False.
C9_OnlyConfigRaises ==
  /\ \A s \in StageSet \ {"load_environment_variables"} : stage[s] # "raised"
  /\ StageDone("load_environment_variables") =>
       (stage["load_environment_variables"] = "raised"
          <=> (MissingRequired # {} \/ DotenvFailed))
  /\ stage["load_environment_variables"] = "raised" => pc \in {"Failed", "Exited"}
  /\ \A s \in StageSet : stage[s] = "failed" => cause \notin {"none", "unexpected", "missingKeys"}

C9_Witness ==
  /\ stage["test_slack_connection"] = "failed"
  /\ stage["load_environment_variables"] = "ok"
  /\ pc = "Failed"

\* C10: the exit code is 0 exactly when the run reached Done, 1 when a stage
\* reported failure, 2 when the user interrupted the run, and 3 when an
\* unexpected error occurred during the run.
C10_ExitCodesDistinguishOutcomes ==
  pc = "Exited" =>
    /\ exitCode = 0 <=> (\A s \in StageSet : stage[s] = "ok")
    /\ cause = "interrupted" => exitCode = 2
    /\ cause = "unexpected" => exitCode = 3
    /\ cause \notin {"none", "interrupted", "unexpected"} => exitCode = 1

GenerationCalled == Count("generate_content", log) = 1

\* C11: the summarization stage never yields an empty summary as success:
\* whatever the generation backend returns, a text the stage returns is not
\* empty, and when the backend's text is empty or absent the stage returns
\* failure and the run publishes nothing.
C11_NoEmptySummaryAsSuccess ==
  GenerationCalled =>
    /\ summary_text # None => summary_text # <<>>
    /\ (response_text = None \/ response_text = <<>>) =>
         /\ summary_text = None
         /\ Count("post_summary_to_slack", log) = 0
         /\ posted = <<>>

\* ------------------------------------------- summarize called on its own
\* summarize_transcript_with_ai invoked outside a run of main (as by
\* ai_summarizer.py's own entry point) on a file of the target directory that
\* need not come from a run: the file may be missing, or hold any text.
DirectFiles ==
  {NoFile} \cup
  {[exists |-> TRUE, run |-> 0, source |-> 0, body |-> t, complete |-> TRUE] : t \in Texts}

ConfiguredEnv == [k \in Keys |-> IF k \in RequiredSet THEN "x" ELSE Unset]

InitDirect ==
  /\ env = ConfiguredEnv
  /\ pc = "DirectCall"
  /\ env_vars = env_vars_of(ConfiguredEnv)
  /\ config_error = <<>>
  /\ stage = [s \in StageSet |-> "notrun"]
  /\ cause = "none"
  /\ log = <<>>
  /\ latest_file = NoCandidate
  /\ chunks = 0
  /\ content = None
  /\ file_path \in Names
  /\ google_doc_url = NoneStr
  /\ response_text = None
  /\ summary_text = None
  /\ posted = <<>>
  /\ exitCode = NoExit
  /\ files \in [Names -> DirectFiles]
  /\ dir_exists = TRUE
  /\ clock = 0
  /\ run = 1

\* ai_summarizer.py 11-59, called as at 203-207
SummarizeDirect ==
  /\ pc = "DirectCall"
  /\ \E resp \in GenResponses :
       LET f == files[file_path]
           r == summarize_transcript_with_ai(f.exists, FileText(f), resp)
       IN
       /\ log' = log \o r.events
       /\ summary_text' = r.ret
       /\ response_text' = IF Count("generate_content", r.events) = 1 /\ resp.kind = "text"
                           THEN resp.text ELSE None
       /\ stage' = [stage EXCEPT !["summarize_transcript_with_ai"] =
                      IF r.ret # None THEN "ok" ELSE "failed"]
       /\ cause' = r.cause
       /\ pc' = "DirectReturned"
  /\ UNCHANGED << env, env_vars, config_error, latest_file, chunks, content,
                  file_path, google_doc_url, posted, exitCode, files,
                  dir_exists, clock, run >>

NextDirect == SummarizeDirect

SpecDirect == InitDirect /\ [][NextDirect]_vars

ArtifactMissing == ~files[file_path].exists
ArtifactBlank == files[file_path].exists /\ strip(FileText(files[file_path])) = <<>>

\* C12: an invocation of summarize whose artifact file is missing, or whose
\* content is empty or whitespace-only, returns failure without configuring
\* or calling the generation backend.
C12_BlankInputMakesNoBackendCall ==
  (pc = "DirectReturned" /\ (ArtifactMissing \/ ArtifactBlank)) =>
    /\ summary_text = None
    /\ stage["summarize_transcript_with_ai"] = "failed"
    /\ cause = IF ArtifactMissing THEN "fileNotFound" ELSE "emptyInput"
    /\ Count("genai.configure", log) = 0
    /\ Count("generate_content", log) = 0
    /\ response_text = None
    /\ log = <<"summarize_transcript_with_ai">>

C12_Witness ==
  /\ pc = "DirectReturned"
  /\ ArtifactBlank
  /\ FileText(files[file_path]) # <<>>
  /\ summary_text = None

\* ------------------------------------------------------------ termination
\* Every call of a run returns or raises, so a run that can take a step
\* eventually takes one.
SpecLive == Init /\ [][Next]_vars /\ WF_vars(Next)

Rank(p) ==
  IF p = "Start" THEN 9
  ELSE IF p = "ConfigResolved" THEN 8
  ELSE IF p = "ConnectivityVerified" THEN 7
  ELSE IF p = "Downloading" THEN 6
  ELSE IF p = "ContentReady" THEN 5
  ELSE IF p = "TranscriptFetched" THEN 4
  ELSE IF p = "SummaryGenerated" THEN 3
  ELSE IF p \in Returned THEN 1
  ELSE 0

\* Steps left: the position, then the chunks the download may still take.
Measure == Rank(pc) * (MaxChunks + 1) + (MaxChunks - chunks)

\* C13 as stated: the terminal outcome of a run is Done or Failed.
C13_OutcomeIsDoneOrFailed ==
  pc \in Returned => pc \in {"Done", "Failed"}

\* C13 as amended: every run terminates, and main ends in exactly one of
\* Done (returns True), Failed (returns False) or, when the user interrupts
\* the run, Interrupted (KeyboardInterrupt leaves main); the download loop
\* is the only place a run repeats a step, each pass is one next_chunk call,
\* and every other step moves the run forward.
C13_EveryRunTerminates ==
  /\ <>(pc = "Exited" /\ exitCode \in {0, 1, 2})
  /\ [](pc \in Returned => pc \in {"Done", "Failed", "Interrupted"})
  /\ [][/\ Measure' < Measure
        /\ pc' = pc => (pc = "Downloading" /\ chunks' = chunks + 1)
        /\ pc \in Returned => pc' = "Exited"]_vars

C13_Witness ==
  /\ pc = "Exited"
  /\ chunks = MaxChunks
  /\ Count("next_chunk", log) = MaxChunks
  /\ MaxChunks >= 2
====
